---- MODULE Spec2Model ----
(***************************************************************************)
(* Model of biophys/folding-1d/src/main.rs: the text parser, the segment   *)
(* structure operations, the energy model, the recursive three-candidate   *)
(* search and the top-level minimisation, run as `main` runs them.         *)
(*                                                                         *)
(* A nucleotide is one of the strings "A", "C", "G", "U".  A segment is a  *)
(* record [kind, bases]: Single(b) is [kind |-> "Single", bases |-> <<b>>] *)
(* and Loop(v) is [kind |-> "Loop", bases |-> v].  An RnaStructure has the *)
(* single field `segments`, so it is modelled as its segment sequence.     *)
(* A panic (unwrap on None, expect, slice out of range, unreachable!) is   *)
(* the outcome [panic |-> TRUE, ...] and propagates to the caller.         *)
(*                                                                         *)
(* The search is modelled twice: as the value it returns (the operator     *)
(* strand_permute_search) and with its parallel map taken one branch step  *)
(* at a time (the actions ForkSearch, Evaluate, Combine and Return).       *)
(*                                                                         *)
(* The module also models the cycle finder of                              *)
(* immunology/boolean-network/src/model/cycle.rs as update_model of        *)
(* immunology/boolean-network/src/main.rs drives it.  The two programs     *)
(* share no state: each specification runs one of them and leaves the      *)
(* variables of the other at their initial values.                         *)
(***************************************************************************)
EXTENDS Integers, Sequences, FiniteSets, TLC

(***************************************************************************)
(* Bounds of the explored inputs.                                          *)
(***************************************************************************)
MaxText == 5
MaxArm == 3
MaxShortArm == 2
MaxSegs == 4
MaxForkArm == 3
NumStates == 3
MaxSteps == 14

(***************************************************************************)
(* Nucleotides and the pairing rule.                                       *)
(***************************************************************************)
RnaNucleotide == {"A", "C", "G", "U"}

can_pair(a, b) ==
    \/ (a = "A" /\ b = "U") \/ (a = "U" /\ b = "A")
    \/ (a = "C" /\ b = "G") \/ (a = "G" /\ b = "C")

(***************************************************************************)
(* Segments.                                                               *)
(***************************************************************************)
Single(base) == [kind |-> "Single", bases |-> <<base>>]

Loop(bases) == [kind |-> "Loop", bases |-> bases]

IsSingle(segment) == segment.kind = "Single"

IsLoop(segment) == segment.kind = "Loop"

as_loop(segment) ==
    IF IsSingle(segment) THEN Loop(<<segment.bases[1]>>) ELSE segment

(***************************************************************************)
(* Slices and iterator helpers of the standard library, as the code uses   *)
(* them.                                                                   *)
(***************************************************************************)
Prefix(s, n) == SubSeq(s, 1, n)

Suffix(s, n) == SubSeq(s, n + 1, Len(s))

RECURSIVE Reverse(_)
Reverse(s) == IF s = <<>> THEN <<>> ELSE Append(Reverse(Tail(s)), Head(s))

RECURSIVE Sum(_)
Sum(s) == IF s = <<>> THEN 0 ELSE Head(s) + Sum(Tail(s))

RECURSIVE Concat(_)
Concat(ss) == IF ss = <<>> THEN <<>> ELSE Head(ss) \o Concat(Tail(ss))

Min2(x, y) == IF x < y THEN x ELSE y

(***************************************************************************)
(* Text.  A text is a sequence of characters; a character is a string.     *)
(* "U+00E9" stands for one character whose UTF-8 encoding takes two bytes, *)
(* every other character used here takes one.                              *)
(***************************************************************************)
Utf8Len(token) == IF token = "U+00E9" THEN 2 ELSE 1

\* a segment written with the closing brace of a Loop left out
FormatSegmentUnclosed(segment) ==
    IF IsSingle(segment) THEN <<segment.bases[1]>>
    ELSE <<"{">> \o segment.bases

\* fmt::Debug of a nucleotide and of a segment
FormatSegment(segment) ==
    IF IsSingle(segment) THEN <<segment.bases[1]>>
    ELSE <<"{">> \o segment.bases \o <<"}">>

\* the buffer that RnaStructure's Debug builds, lines 73-79: the Debug texts
\* of the segments one after the other.  It is the text of a structure in
\* the notation parse_sequence reads
FormatSegments(segments) ==
    Concat([i \in 1..Len(segments) |-> FormatSegment(segments[i])])

\* fmt::Debug of a structure: debug_struct("RnaStructure") with the one
\* field "segments", whose value is the buffer shown as a quoted string
\* (the buffer holds no character that the quoting escapes)
FormatStructure(segments) ==
    <<"R", "n", "a", "S", "t", "r", "u", "c", "t", "u", "r", "e", " ", "{", " ",
      "s", "e", "g", "m", "e", "n", "t", "s", ":", " ", "\"">>
        \o FormatSegments(segments)
        \o <<"\"", " ", "}">>

\* fmt::Display of a usize
Digits == <<"0", "1", "2", "3", "4", "5", "6", "7", "8", "9">>

RECURSIVE FormatUsize(_)
FormatUsize(n) ==
    IF n < 10 THEN <<Digits[n + 1]>>
    ELSE FormatUsize(n \div 10) \o <<Digits[(n % 10) + 1]>>

\* the two lines main prints of the structures, lines 377 and 378
InputLine(segments, free_energy) ==
    <<"i", "n", "p", "u", "t", " ", "-", ">", " ">>
        \o FormatStructure(segments)
        \o <<" ", "(", "H", " ", "=", " ">> \o FormatUsize(free_energy) \o <<")">>

OptimizedLine(segments, free_energy) ==
    <<"o", "p", "t", "i", "m", "i", "z", "e", "d", " ", "<", "-", " ">>
        \o FormatStructure(segments)
        \o <<" ", "(", "H", " ", "=", " ">> \o FormatUsize(free_energy) \o <<")">>

\* what main prints once minimize_free_energy has returned, lines 376-379
PrintedLines(input, initial_free_energy, optimized, opt_free_energy) ==
    << <<>>,
       InputLine(input, initial_free_energy),
       OptimizedLine(optimized, opt_free_energy),
       <<>> >>

parse_single(token) ==
    CASE token \in {"a", "A"} -> [ok |-> TRUE, base |-> "A"]
      [] token \in {"c", "C"} -> [ok |-> TRUE, base |-> "C"]
      [] token \in {"g", "G"} -> [ok |-> TRUE, base |-> "G"]
      [] token \in {"u", "U"} -> [ok |-> TRUE, base |-> "U"]
      [] OTHER -> [ok |-> FALSE, base |-> "?"]

\* .take_while(Result::is_ok) over the mapped characters
RECURSIVE TakeWhileOk(_)
TakeWhileOk(results) ==
    IF results = <<>> \/ ~Head(results).ok THEN <<>>
    ELSE <<Head(results)>> \o TakeWhileOk(Tail(results))

\* collect::<Result<Vec<_>, _>>(): the first Err, or every Ok value
Collect(results) ==
    IF \E i \in 1..Len(results) : ~results[i].ok
    THEN [ok |-> FALSE, bases |-> <<>>]
    ELSE [ok |-> TRUE, bases |-> [i \in 1..Len(results) |-> results[i].base]]

\* the decoding without take_while: the first invalid token fails the run
parse_nucleotides_strict(sequence) ==
    Collect([i \in 1..Len(sequence) |-> parse_single(sequence[i])])

parse_nucleotides(sequence) ==
    Collect(TakeWhileOk([i \in 1..Len(sequence) |-> parse_single(sequence[i])]))

\* str::split_once('}'): the index of the first '}', 0 when there is none
FirstLoopEnd(sequence) ==
    IF \E i \in 1..Len(sequence) : sequence[i] = "}"
    THEN CHOOSE i \in 1..Len(sequence) :
            /\ sequence[i] = "}"
            /\ \A j \in 1..(i - 1) : sequence[j] # "}"
    ELSE 0

ParseOk(segments) == [outcome |-> "ok", segments |-> segments]

ParseErr == [outcome |-> "err", segments |-> <<>>]

ParsePanic == [outcome |-> "panic", segments |-> <<>>]

RECURSIVE ParseLoop(_, _)
ParseLoop(sequence, segments) ==
    IF sequence = <<>> THEN ParseOk(segments)
    ELSE LET token == Head(sequence) IN
         IF token = "{"
         THEN LET rest == Tail(sequence)
                  end == FirstLoopEnd(rest)
              IN IF end = 0 THEN ParseErr
                 ELSE LET head == Prefix(rest, end - 1)
                          tail == Suffix(rest, end)
                          bases == parse_nucleotides(head)
                      IN IF ~bases.ok THEN ParseErr
                         ELSE ParseLoop(tail, Append(segments, Loop(bases.bases)))
         ELSE IF Utf8Len(token) # 1 THEN ParsePanic
              ELSE LET base == parse_single(token) IN
                   IF ~base.ok THEN ParseErr
                   ELSE ParseLoop(Tail(sequence), Append(segments, Single(base.base)))

parse_sequence(sequence) == ParseLoop(sequence, <<>>)

(***************************************************************************)
(* Structure operations.                                                   *)
(***************************************************************************)
\* the key of max_by_key in split_at_major_loop
LoopKey(segment) == IF IsLoop(segment) THEN Len(segment.bases) ELSE 0

\* Iterator::max_by_key over the enumerated segments: the index of the last
\* element of maximum key, 0 for an empty iterator
RECURSIVE MaxByKeyFrom(_, _, _)
MaxByKeyFrom(segments, best, i) ==
    IF i > Len(segments) THEN best
    ELSE IF LoopKey(segments[i]) >= LoopKey(segments[best])
         THEN MaxByKeyFrom(segments, i, i + 1)
         ELSE MaxByKeyFrom(segments, best, i + 1)

MaxByKey(segments) ==
    IF segments = <<>> THEN 0 ELSE MaxByKeyFrom(segments, 1, 2)

NoSplit ==
    [panic |-> TRUE, strand_a |-> <<>>, loop_segment |-> Loop(<<>>), strand_b |-> <<>>]

split_at_major_loop(segments) ==
    LET major_loop_idx == MaxByKey(segments) IN
    IF major_loop_idx = 0 THEN NoSplit
    ELSE [panic |-> FALSE,
          strand_a |-> Reverse(Prefix(segments, major_loop_idx - 1)),
          loop_segment |-> segments[major_loop_idx],
          strand_b |-> Suffix(segments, major_loop_idx)]

\* Iterator::position of the first Single, 0 for None
FirstSingle(segments) ==
    IF \E i \in 1..Len(segments) : IsSingle(segments[i])
    THEN CHOOSE i \in 1..Len(segments) :
            /\ IsSingle(segments[i])
            /\ \A j \in 1..(i - 1) : ~IsSingle(segments[j])
    ELSE 0

\* the first Single found but left as it is: the promotion is forgotten
with_first_single_kept(segments) ==
    LET single_idx == FirstSingle(segments) IN
    IF single_idx = 0 THEN [panic |-> TRUE, segments |-> <<>>]
    ELSE [panic |-> FALSE, segments |-> segments]

with_first_single_looped(segments) ==
    LET single_idx == FirstSingle(segments) IN
    IF single_idx = 0 THEN [panic |-> TRUE, segments |-> <<>>]
    ELSE [panic |-> FALSE,
          segments |-> [segments EXCEPT ![single_idx] = as_loop(segments[single_idx])]]

split_after_first_segment(segments) ==
    IF segments = <<>> THEN [panic |-> TRUE, head |-> <<>>, tail |-> <<>>]
    ELSE [panic |-> FALSE, head |-> Prefix(segments, 1), tail |-> Suffix(segments, 1)]

\* the split with the leading Loop of `self` left on its tail when `other` is
\* held back
split_at_first_pair_loop_kept(self, other) ==
    IF self # <<>> /\ other # <<>> /\ IsLoop(self[1]) /\ IsSingle(other[1])
    THEN [panic |-> FALSE, a_head |-> Prefix(self, 1), a_tail |-> self,
          b_head |-> <<>>, b_tail |-> other]
    ELSE IF self # <<>> /\ other # <<>> /\ IsSingle(self[1]) /\ IsLoop(other[1])
    THEN [panic |-> FALSE, a_head |-> <<>>, a_tail |-> self,
          b_head |-> Prefix(other, 1), b_tail |-> Suffix(other, 1)]
    ELSE IF self = <<>> \/ other = <<>>
    THEN [panic |-> TRUE, a_head |-> <<>>, a_tail |-> <<>>, b_head |-> <<>>, b_tail |-> <<>>]
    ELSE [panic |-> FALSE, a_head |-> Prefix(self, 1), a_tail |-> Suffix(self, 1),
          b_head |-> Prefix(other, 1), b_tail |-> Suffix(other, 1)]

split_at_first_pair(self, other) ==
    IF self # <<>> /\ other # <<>> /\ IsLoop(self[1]) /\ IsSingle(other[1])
    THEN [panic |-> FALSE, a_head |-> Prefix(self, 1), a_tail |-> Suffix(self, 1),
          b_head |-> <<>>, b_tail |-> other]
    ELSE IF self # <<>> /\ other # <<>> /\ IsSingle(self[1]) /\ IsLoop(other[1])
    THEN [panic |-> FALSE, a_head |-> <<>>, a_tail |-> self,
          b_head |-> Prefix(other, 1), b_tail |-> Suffix(other, 1)]
    ELSE IF self = <<>> \/ other = <<>>
    THEN [panic |-> TRUE, a_head |-> <<>>, a_tail |-> <<>>, b_head |-> <<>>, b_tail |-> <<>>]
    ELSE [panic |-> FALSE, a_head |-> Prefix(self, 1), a_tail |-> Suffix(self, 1),
          b_head |-> Prefix(other, 1), b_tail |-> Suffix(other, 1)]

join(self, other) ==
    IF self # <<>> /\ other # <<>> /\ IsLoop(self[Len(self)]) /\ IsLoop(other[1])
    THEN Prefix(self, Len(self) - 1)
            \o <<Loop(self[Len(self)].bases \o other[1].bases)>>
            \o Tail(other)
    ELSE self \o other

(***************************************************************************)
(* Energy model.                                                           *)
(***************************************************************************)
\* the free_energy_a / free_energy_b accumulators
FreeEnergy(segments) ==
    Sum([i \in 1..Len(segments) |->
            IF IsLoop(segments[i]) THEN Len(segments[i].bases) ELSE 1])

\* the filter_map: the Single bases, in order
RECURSIVE SingleBases(_)
SingleBases(segments) ==
    IF segments = <<>> THEN <<>>
    ELSE IF IsSingle(Head(segments))
         THEN <<Head(segments).bases[1]>> \o SingleBases(Tail(segments))
         ELSE SingleBases(Tail(segments))

\* zip, filter on can_pair, count
HBonds(strand_a, strand_b) ==
    Cardinality({i \in 1..Min2(Len(strand_a), Len(strand_b)) :
                    can_pair(strand_a[i], strand_b[i])})

paired_free_energy(self, other) ==
    FreeEnergy(self) + FreeEnergy(other)
        - (HBonds(SingleBases(self), SingleBases(other)) * 2)

(***************************************************************************)
(* Recursive search.                                                       *)
(***************************************************************************)
SearchPanic == [panic |-> TRUE, a |-> <<>>, b |-> <<>>, free_energy |-> 0]

Found(a, b, free_energy) ==
    [panic |-> FALSE, a |-> a, b |-> b, free_energy |-> free_energy]

\* min_by_key over the candidates in array order: the reduction keeps the
\* left operand unless the right one is strictly smaller
RECURSIVE MinByKeyFrom(_, _, _)
MinByKeyFrom(results, best, i) ==
    IF i > Len(results) THEN best
    ELSE IF results[i].free_energy < results[best].free_energy
         THEN MinByKeyFrom(results, i, i + 1)
         ELSE MinByKeyFrom(results, best, i + 1)

\* min_by_key with the reduction keeping the right operand on a tie
RECURSIVE MinByKeyLastFrom(_, _, _)
MinByKeyLastFrom(results, best, i) ==
    IF i > Len(results) THEN best
    ELSE IF results[i].free_energy <= results[best].free_energy
         THEN MinByKeyLastFrom(results, i, i + 1)
         ELSE MinByKeyLastFrom(results, best, i + 1)

MinByKeyLast(results) == MinByKeyLastFrom(results, 1, 2)

MinByKey(results) == MinByKeyFrom(results, 1, 2)

RECURSIVE strand_permute_search(_, _)
RECURSIVE EvalCandidate(_, _)

\* the closure with `free_energy += ...` left out of its else branch
EvalCandidateHeadOnly(strand_a, strand_b) ==
    LET split == split_at_first_pair(strand_a, strand_b) IN
    IF split.panic THEN SearchPanic
    ELSE LET head_energy == paired_free_energy(split.a_head, split.b_head) IN
         IF split.a_tail # <<>> /\ split.b_tail # <<>>
         THEN LET opt == strand_permute_search(split.a_tail, split.b_tail) IN
              IF opt.panic THEN SearchPanic
              ELSE Found(join(split.a_head, opt.a), join(split.b_head, opt.b),
                         head_energy + opt.free_energy)
         ELSE Found(join(split.a_head, split.a_tail), join(split.b_head, split.b_tail),
                    head_energy)

\* the closure passed to map: one candidate pair of arms
EvalCandidate(strand_a, strand_b) ==
    LET split == split_at_first_pair(strand_a, strand_b) IN
    IF split.panic THEN SearchPanic
    ELSE LET head_energy == paired_free_energy(split.a_head, split.b_head) IN
         IF split.a_tail # <<>> /\ split.b_tail # <<>>
         THEN LET opt == strand_permute_search(split.a_tail, split.b_tail) IN
              IF opt.panic THEN SearchPanic
              ELSE Found(join(split.a_head, opt.a), join(split.b_head, opt.b),
                         head_energy + opt.free_energy)
         ELSE Found(join(split.a_head, split.a_tail), join(split.b_head, split.b_tail),
                    head_energy + paired_free_energy(split.a_tail, split.b_tail))

\* the array with the bulge on arm B left out: its third entry repeats the first
CandidatesNoBulgeB(strand_a, strand_b) ==
    LET looped_a == with_first_single_looped(strand_a)
        looped_b == with_first_single_looped(strand_b)
    IN IF looped_a.panic \/ looped_b.panic
       THEN [panic |-> TRUE, pairs |-> <<>>]
       ELSE [panic |-> FALSE,
             pairs |-> << <<strand_a, strand_b>>,
                          <<looped_a.segments, strand_b>>,
                          <<strand_a, strand_b>> >>]

\* the three-element array, built before the parallel map runs
Candidates(strand_a, strand_b) ==
    LET looped_a == with_first_single_looped(strand_a)
        looped_b == with_first_single_looped(strand_b)
    IN IF looped_a.panic \/ looped_b.panic
       THEN [panic |-> TRUE, pairs |-> <<>>]
       ELSE [panic |-> FALSE,
             pairs |-> << <<strand_a, strand_b>>,
                          <<looped_a.segments, strand_b>>,
                          <<strand_a, looped_b.segments>> >>]

\* the mapped results, in array order
CandidateResults(pairs) ==
    << EvalCandidate(pairs[1][1], pairs[1][2]),
       EvalCandidate(pairs[2][1], pairs[2][2]),
       EvalCandidate(pairs[3][1], pairs[3][2]) >>

\* the search falling back on the unmodified arms when a bulge candidate
\* cannot be built, instead of propagating the failure
strand_permute_search_lenient(strand_a, strand_b) ==
    LET candidates == Candidates(strand_a, strand_b) IN
    IF candidates.panic
    THEN Found(strand_a, strand_b, paired_free_energy(strand_a, strand_b))
    ELSE LET results == CandidateResults(candidates.pairs) IN
         IF \E i \in 1..Len(results) : results[i].panic THEN SearchPanic
         ELSE results[MinByKey(results)]

strand_permute_search(strand_a, strand_b) ==
    LET candidates == Candidates(strand_a, strand_b) IN
    IF candidates.panic THEN SearchPanic
    ELSE LET results == CandidateResults(candidates.pairs) IN
         IF \E i \in 1..Len(results) : results[i].panic THEN SearchPanic
         ELSE results[MinByKey(results)]

(***************************************************************************)
(* The parallel map of the search taken branch by branch.  A task is one   *)
(* candidate branch, named by its path: the candidate numbers from the top *)
(* level down; the empty path names the call made by minimize_free_energy. *)
(* A waiting task has called strand_permute_search on its tails and holds  *)
(* the pieces of the reduction over its three branches.                    *)
(***************************************************************************)
NoTasks == [q \in {} |-> 0]

\* the reduction operator with the right operand kept on a tie
min_key_right(left, right) ==
    IF right.free_energy <= left.free_energy THEN right ELSE left

\* the operator min_by_key reduces with: the left operand is kept unless the
\* right one has a strictly smaller key.  Its operands are results: a branch
\* that panicked hands the reduction nothing
min_key(left, right) ==
    IF right.free_energy < left.free_energy THEN right ELSE left

\* one piece of the reduction: the branches lo..hi, reduced to acc when it
\* spans more than one branch
Piece(lo, hi, acc) == [lo |-> lo, hi |-> hi, acc |-> acc]

InitialPieces ==
    << Piece(1, 1, SearchPanic), Piece(2, 2, SearchPanic), Piece(3, 3, SearchPanic) >>

\* a branch of the parallel map before its closure has run
ReadyTask(strand_a, strand_b) ==
    [status |-> "ready", a |-> strand_a, b |-> strand_b,
     a_head |-> <<>>, a_tail |-> <<>>, b_head |-> <<>>, b_tail |-> <<>>,
     free_energy |-> 0, pieces |-> <<>>, result |-> SearchPanic]

\* a task that has called strand_permute_search(a_tail, b_tail)
WaitingTask(task, split, free_energy) ==
    [task EXCEPT !.status = "waiting",
                 !.a_head = split.a_head, !.a_tail = split.a_tail,
                 !.b_head = split.b_head, !.b_tail = split.b_tail,
                 !.free_energy = free_energy, !.pieces = InitialPieces]

DoneTask(task, result) ==
    [task EXCEPT !.status = "done", !.pieces = <<>>, !.result = result]

\* the call made by minimize_free_energy: it has no heads to join
RootTask(strand_a, strand_b) ==
    WaitingTask(ReadyTask(strand_a, strand_b),
                [a_head |-> <<>>, a_tail |-> strand_a,
                 b_head |-> <<>>, b_tail |-> strand_b], 0)

Children(q) == {Append(q, i) : i \in 1..3}

(***************************************************************************)
(* immunology/boolean-network: the cycle finder and the model it watches.  *)
(* An element of the sequence is the state of the network, a number below  *)
(* NumStates; its hash stands for it (two states are taken to hash alike   *)
(* only when they are equal).                                              *)
(***************************************************************************)
Some(value) == [some |-> TRUE, value |-> value]

\* Option<usize> and Option<u64>
None == [some |-> FALSE, value |-> 0]

\* Range<usize>
Range(start, end) == [start |-> start, end |-> end]

\* Option<Range<usize>>
NoRange == [some |-> FALSE, value |-> Range(0, 0)]

\* CycleFinder::new
NewCycleFinder == [power |-> 1, lambda |-> 0, mu |-> None, tortoise |-> None]

\* Model::new, with the graph in state x
NewModel(x) == [timestep |-> 0, state_hashes |-> <<>>, graph |-> x]

\* zip(collection, collection.skip(lambda)).take_while(!=).count()
TakeWhileDiffer(collection, lambda) ==
    LET n == IF Len(collection) > lambda THEN Len(collection) - lambda ELSE 0
        hits == {i \in 1..n : collection[i] = collection[i + lambda]}
    IN IF hits = {} THEN n
       ELSE (CHOOSE i \in hits : \A j \in hits : i <= j) - 1

\* check_next with the tortoise never moved up to the hare
check_next_fixed_tortoise(self, collection, next) ==
    IF ~self.tortoise.some
    THEN [self |-> [self EXCEPT !.tortoise = Some(next)], ret |-> NoRange]
    ELSE LET lambda == self.lambda + 1 IN
         IF self.tortoise.value # next
         THEN [self |-> [self EXCEPT !.lambda = lambda], ret |-> NoRange]
         ELSE LET mu == TakeWhileDiffer(collection, lambda) IN
              [self |-> [self EXCEPT !.lambda = lambda, !.mu = Some(mu)],
               ret |-> [some |-> TRUE, value |-> Range(mu, mu + lambda)]]

check_next(self, collection, next) ==
    IF ~self.tortoise.some
    THEN [self |-> [self EXCEPT !.tortoise = Some(next)], ret |-> NoRange]
    ELSE LET lambda == self.lambda + 1 IN
         IF self.tortoise.value # next
         THEN IF self.power = lambda
              THEN [self |-> [self EXCEPT !.tortoise = Some(next),
                                          !.power = self.power * 2,
                                          !.lambda = 0],
                    ret |-> NoRange]
              ELSE [self |-> [self EXCEPT !.lambda = lambda], ret |-> NoRange]
         ELSE LET mu == TakeWhileDiffer(collection, lambda) IN
              [self |-> [self EXCEPT !.lambda = lambda, !.mu = Some(mu)],
               ret |-> [some |-> TRUE, value |-> Range(mu, mu + lambda)]]

\* Model::step under the update function `update` of the graph: the hash of
\* the starting state is pushed on the first step, the graph is updated, the
\* hash of the new state is pushed and returned
step(model, update) ==
    LET hashes == IF model.timestep = 0
                  THEN Append(model.state_hashes, model.graph)
                  ELSE model.state_hashes
        graph == update[model.graph]
    IN [model |-> [timestep |-> model.timestep + 1,
                   state_hashes |-> Append(hashes, graph),
                   graph |-> graph],
        state_hash |-> graph]

(***************************************************************************)
(* The program: main parses its argument and minimises the structure.      *)
(* minimize_free_energy is taken in three steps (the split with the        *)
(* baseline energy, the search, the reassembly); a panic at any step ends  *)
(* the run with pc = "panicked" and `fault` naming the function that       *)
(* panicked.                                                               *)
(***************************************************************************)
VARIABLES pc, raw_sequence, structure, strand_a, loop_segment, strand_b,
          initial_free_energy, found, opt_structure, opt_free_energy, fault,
          stdout, tasks, network, compute_model, cycle_finder, cycle

vars == <<pc, raw_sequence, structure, strand_a, loop_segment, strand_b,
          initial_free_energy, found, opt_structure, opt_free_energy, fault,
          stdout, tasks, network, compute_model, cycle_finder, cycle>>

\* the state of the boolean-network program, which the folding program
\* leaves alone
network_vars == <<network, compute_model, cycle_finder, cycle>>

\* every sequence over S of length at most n
SeqsUpTo(S, n) == UNION {[1..k -> S] : k \in 0..n}

\* one-byte characters of the explored argument texts: an upper-case and a
\* lower-case nucleotide token, the loop delimiters and a character that is
\* no token
AsciiChars == {"A", "c", "{", "}", "x"}

\* the same with a two-byte character that is no token
InputChars == AsciiChars \cup {"U+00E9"}

AsciiTexts == SeqsUpTo(AsciiChars, MaxText)

Texts == SeqsUpTo(InputChars, MaxText)

\* arms made only of Single segments, of at most n bases drawn from `bases`
SingleArms(bases, n) ==
    {[i \in 1..Len(bs) |-> Single(bs[i])] : bs \in SeqsUpTo(bases, n)}

\* texts of one loop between two arms of Singles: long arms over one pairing
\* class, short arms over the whole alphabet
HairpinTexts ==
    {FormatSegments(Reverse(a) \o <<Loop(<<"G", "C">>)>> \o b) :
        a \in SingleArms({"A", "U"}, MaxArm), b \in SingleArms({"A", "U"}, MaxArm)}
    \cup
    {FormatSegments(Reverse(a) \o <<Loop(<<"C">>)>> \o b) :
        a \in SingleArms(RnaNucleotide, MaxShortArm),
        b \in SingleArms(RnaNucleotide, MaxShortArm)}

\* texts of one loop between a long arm A whose bases do not pair with one
\* another and a short arm B
StaggeredTexts ==
    {FormatSegments(Reverse(a) \o <<Loop(<<"C">>)>> \o b) :
        a \in SingleArms({"A", "C", "G"}, MaxArm),
        b \in SingleArms({"U", "C"}, MaxShortArm)}

\* texts of structures that mix Singles and Loops freely
SegmentChoices ==
    {Single("A"), Single("U"), Loop(<<"C">>), Loop(<<"A">>), Loop(<<"G", "G">>)}

StructureTexts == {FormatSegments(s) : s \in SeqsUpTo(SegmentChoices, MaxSegs)}

\* the folding program started on one of `inputs`
FoldingInit(inputs) ==
    /\ raw_sequence \in inputs
    /\ pc = "main"
    /\ structure = <<>>
    /\ strand_a = <<>>
    /\ loop_segment = Loop(<<>>)
    /\ strand_b = <<>>
    /\ initial_free_energy = 0
    /\ found = SearchPanic
    /\ opt_structure = <<>>
    /\ opt_free_energy = 0
    /\ fault = "none"
    /\ stdout = <<>>
    /\ tasks = NoTasks

\* the states of the network
States == 0..(NumStates - 1)

InitWith(inputs) ==
    /\ FoldingInit(inputs)
    /\ network = [x \in States |-> x]
    /\ compute_model = NewModel(0)
    /\ cycle_finder = NewCycleFinder
    /\ cycle = NoRange

Init == InitWith(Texts)

InitAscii == InitWith(AsciiTexts)

InitHairpin == InitWith(HairpinTexts)

InitFold == InitWith(StructureTexts)

InitStaggered == InitWith(StaggeredTexts)

\* main, line 372: parse_sequence(&raw_sequence)
ParseSequence ==
    /\ pc = "main"
    /\ LET parsed == parse_sequence(raw_sequence) IN
        /\ structure' = parsed.segments
        /\ pc' = CASE parsed.outcome = "ok" -> "parsed"
                   [] parsed.outcome = "err" -> "parse_failed"
                   [] OTHER -> "panicked"
        /\ fault' = IF parsed.outcome = "panic" THEN "parse_sequence" ELSE fault
    /\ UNCHANGED <<raw_sequence, strand_a, loop_segment, strand_b,
                   initial_free_energy, found, opt_structure, opt_free_energy>>
    /\ UNCHANGED <<stdout, tasks, network_vars>>

\* minimize_free_energy, lines 293-294
SplitAtMajorLoop ==
    /\ pc = "parsed"
    /\ LET split == split_at_major_loop(structure) IN
        IF split.panic
        THEN /\ pc' = "panicked"
             /\ fault' = "split_at_major_loop"
             /\ UNCHANGED <<strand_a, loop_segment, strand_b, initial_free_energy>>
        ELSE /\ pc' = "split"
             /\ strand_a' = split.strand_a
             /\ loop_segment' = split.loop_segment
             /\ strand_b' = split.strand_b
             /\ initial_free_energy' = paired_free_energy(split.strand_a, split.strand_b)
             /\ UNCHANGED fault
    /\ UNCHANGED <<raw_sequence, structure, found, opt_structure, opt_free_energy>>
    /\ UNCHANGED <<stdout, tasks, network_vars>>

\* minimize_free_energy, lines 296-297
StrandPermuteSearch ==
    /\ pc = "split"
    /\ LET result == strand_permute_search(strand_a, strand_b) IN
        /\ found' = result
        /\ pc' = IF result.panic THEN "panicked" ELSE "searched"
        /\ fault' = IF result.panic THEN "strand_permute_search" ELSE fault
    /\ UNCHANGED <<raw_sequence, structure, strand_a, loop_segment, strand_b,
                   initial_free_energy, opt_structure, opt_free_energy>>
    /\ UNCHANGED <<stdout, tasks, network_vars>>

\* minimize_free_energy, lines 299-318, and the four lines main prints
\* with what it returns, lines 376-379
Reassemble ==
    /\ pc = "searched"
    /\ IF ~IsLoop(loop_segment)
       THEN /\ pc' = "panicked"
            /\ fault' = "minimize_free_energy"
            /\ UNCHANGED <<initial_free_energy, opt_structure, opt_free_energy, stdout>>
       ELSE LET loop_free_energy == Len(loop_segment.bases) IN
            /\ pc' = "done"
            /\ opt_structure' = Reverse(found.a) \o <<loop_segment>> \o found.b
            /\ initial_free_energy' = initial_free_energy + loop_free_energy
            /\ opt_free_energy' = found.free_energy + loop_free_energy
            /\ stdout' = PrintedLines(structure, initial_free_energy',
                                       opt_structure', opt_free_energy')
            /\ UNCHANGED fault
    /\ UNCHANGED <<raw_sequence, structure, strand_a, loop_segment, strand_b, found>>
    /\ UNCHANGED <<tasks, network_vars>>

Next == ParseSequence \/ SplitAtMajorLoop \/ StrandPermuteSearch \/ Reassemble

Spec == Init /\ [][Next]_vars

SpecAscii == InitAscii /\ [][Next]_vars

SpecHairpin == InitHairpin /\ [][Next]_vars

SpecFold == InitFold /\ [][Next]_vars

SpecStaggered == InitStaggered /\ [][Next]_vars

(***************************************************************************)
(* The search with its parallel map taken one branch step at a time.  The  *)
(* branches of a level run in any order and interleave with the branches   *)
(* of every other level; the reduction combines two neighbouring pieces as *)
(* soon as the branches of both have finished, in any grouping, always     *)
(* with the earlier piece as the left operand.  A branch that panics hands *)
(* the reduction nothing: its call unwinds once the branches that have     *)
(* been begun are over, and in a nested call a third branch that shares    *)
(* its job with a panicked second branch may never be run.                 *)
(***************************************************************************)
input_vars == <<raw_sequence, structure, strand_a, loop_segment, strand_b,
                initial_free_energy, opt_structure, opt_free_energy, stdout>>

\* texts of one loop between two arms of Singles: arm A empty or the base A
\* against every arm B, and one text with two bases on either arm; and a
\* text with a shorter Loop on arm A, which leaves branches of the search
\* with an arm that holds no Single
ForkTexts ==
    {FormatSegments(Reverse(a) \o <<Loop(<<"G", "C">>)>> \o b) :
        a \in SingleArms({"A"}, 1),
        b \in SingleArms({"A", "U"}, MaxForkArm)}
    \cup {<<"U", "A", "{", "G", "C", "}", "A", "U">>}
    \cup {<<"{", "C", "}", "A", "{", "G", "C", "}", "U", "A">>}

InitFork == InitWith(ForkTexts)

\* the three branches of the call made by task q, ready to run
Spawn(q, caller, pairs) ==
    [p \in DOMAIN tasks \cup {q} \cup Children(q) |->
        IF p \in Children(q)
        THEN ReadyTask(pairs[p[Len(p)]][1], pairs[p[Len(p)]][2])
        ELSE IF p = q THEN caller
        ELSE tasks[p]]

\* minimize_free_energy, lines 296-297: the call builds its candidate array
\* and hands the three entries to the parallel map
ForkSearch ==
    /\ pc = "split"
    /\ LET candidates == Candidates(strand_a, strand_b) IN
        IF candidates.panic
        THEN /\ pc' = "panicked"
             /\ fault' = "strand_permute_search"
             /\ UNCHANGED tasks
        ELSE /\ pc' = "searching"
             /\ tasks' = Spawn(<<>>, RootTask(strand_a, strand_b), candidates.pairs)
             /\ UNCHANGED fault
    /\ UNCHANGED <<input_vars, found, network_vars>>

\* the closure of branch q, lines 266-286, up to its result or up to the
\* parallel map of its recursive call
Evaluate(q) ==
    /\ pc = "searching"
    /\ tasks[q].status = "ready"
    /\ LET task == tasks[q]
           split == split_at_first_pair(task.a, task.b)
       IN IF split.panic
          THEN tasks' = [tasks EXCEPT ![q] = DoneTask(task, SearchPanic)]
          ELSE LET free_energy == paired_free_energy(split.a_head, split.b_head) IN
               IF split.a_tail # <<>> /\ split.b_tail # <<>>
               THEN LET candidates == Candidates(split.a_tail, split.b_tail) IN
                    IF candidates.panic
                    THEN tasks' = [tasks EXCEPT ![q] = DoneTask(task, SearchPanic)]
                    ELSE tasks' = Spawn(q, WaitingTask(task, split, free_energy),
                                        candidates.pairs)
               ELSE tasks' = [tasks EXCEPT ![q] = DoneTask(task,
                        Found(join(split.a_head, split.a_tail),
                              join(split.b_head, split.b_tail),
                              free_energy
                                + paired_free_energy(split.a_tail, split.b_tail)))]
    /\ UNCHANGED <<pc, fault, input_vars, found, network_vars>>

\* every branch of the piece has finished
PieceComplete(q, piece) ==
    \A i \in piece.lo..piece.hi : tasks[Append(q, i)].status = "done"

PieceResult(q, piece) ==
    IF piece.lo = piece.hi THEN tasks[Append(q, piece.lo)].result ELSE piece.acc

\* branch p has panicked
Panicked(p) == tasks[p].status = "done" /\ tasks[p].result.panic

\* the panic of a branch unwinds the call made by q once the branches that
\* were begun are over.  The first two always are begun.  The third is
\* begun too when it is a job of its own, as it always is in the call made
\* from main, which enters the thread pool from outside; in a call made on
\* a thread of the pool the third may share its job with the second, and
\* is then never run when the second has panicked
Unwinds(q) ==
    /\ \E p \in Children(q) : Panicked(p)
    /\ tasks[Append(q, 1)].status = "done"
    /\ tasks[Append(q, 2)].status = "done"
    /\ \/ tasks[Append(q, 3)].status = "done"
       \/ /\ q # <<>>
          /\ tasks[Append(q, 3)].status = "ready"
          /\ Panicked(Append(q, 2))

\* the call made by q has reduced the results of its three branches to one
Reduced(q) ==
    /\ Len(tasks[q].pieces) = 1
    /\ PieceComplete(q, tasks[q].pieces[1])
    /\ ~PieceResult(q, tasks[q].pieces[1]).panic

\* min_by_key, line 288: two neighbouring finished pieces, neither with a
\* panicked branch, are reduced to one
Combine(q, k) ==
    /\ pc = "searching"
    /\ tasks[q].status = "waiting"
    /\ k \in 1..(Len(tasks[q].pieces) - 1)
    /\ LET pieces == tasks[q].pieces
           left == pieces[k]
           right == pieces[k + 1]
       IN /\ PieceComplete(q, left)
          /\ PieceComplete(q, right)
          /\ ~PieceResult(q, left).panic
          /\ ~PieceResult(q, right).panic
          /\ tasks' = [tasks EXCEPT ![q].pieces =
                Prefix(pieces, k - 1)
                    \o <<Piece(left.lo, right.hi,
                               min_key(PieceResult(q, left), PieceResult(q, right)))>>
                    \o Suffix(pieces, k + 1)]
    /\ UNCHANGED <<pc, fault, input_vars, found, network_vars>>

\* the call made by task q returns the reduced result, lines 288-289, or
\* unwinds with the panic of a branch; the task joins the result to its
\* heads, lines 275-278, or, at the top, hands it to minimize_free_energy;
\* a panic is passed on to the caller
Return(q) ==
    /\ pc = "searching"
    /\ tasks[q].status = "waiting"
    /\ Reduced(q) \/ Unwinds(q)
    /\ LET task == tasks[q]
           opt == IF Unwinds(q) THEN SearchPanic
                  ELSE PieceResult(q, task.pieces[1])
       IN IF q = <<>>
          THEN /\ found' = opt
               /\ pc' = IF opt.panic THEN "panicked" ELSE "searched"
               /\ fault' = IF opt.panic THEN "strand_permute_search" ELSE fault
               /\ tasks' = NoTasks
          ELSE /\ tasks' = [p \in DOMAIN tasks \ Children(q) |->
                    IF p # q THEN tasks[p]
                    ELSE DoneTask(task,
                            IF opt.panic THEN SearchPanic
                            ELSE Found(join(task.a_head, opt.a),
                                       join(task.b_head, opt.b),
                                       task.free_energy + opt.free_energy))]
               /\ UNCHANGED <<pc, fault, found>>
    /\ UNCHANGED <<input_vars, network_vars>>

NextFork ==
    \/ ParseSequence
    \/ SplitAtMajorLoop
    \/ ForkSearch
    \/ \E q \in DOMAIN tasks : Evaluate(q)
    \/ \E q \in DOMAIN tasks : \E k \in 1..2 : Combine(q, k)
    \/ \E q \in DOMAIN tasks : Return(q)
    \/ Reassemble

SpecFork == InitFork /\ [][NextFork]_vars

(***************************************************************************)
(* The boolean-network program: generate_model makes a random network with *)
(* a new model and a new finder, at start-up and whenever the Regenerate   *)
(* button is clicked; update_model steps the model and feeds the finder    *)
(* until a cycle is reported.  The update function of a network is any     *)
(* function on the states, its starting state is the state numbered 0, and *)
(* the steps on one network are cut off at MaxSteps.                       *)
(***************************************************************************)
folding_vars == <<pc, fault, input_vars, found, tasks>>

\* the state after setup has sent the first RegenerateEvent and
\* generate_model has read it, main.rs lines 181 and 285-347
InitNetwork ==
    /\ FoldingInit({<<>>})
    /\ network \in [States -> States]
    /\ compute_model = NewModel(0)
    /\ cycle_finder = NewCycleFinder
    /\ cycle = NoRange

\* regenerate_button sends a RegenerateEvent on a click, lines 550-557, and
\* generate_model, reading it, replaces the ModelState resource, lines
\* 285-347: a new random network, Model::new() with its graph, a new finder
\* and no cycle
GenerateModel ==
    /\ network' \in [States -> States]
    /\ compute_model' = NewModel(0)
    /\ cycle_finder' = NewCycleFinder
    /\ cycle' = NoRange
    /\ UNCHANGED folding_vars

\* update_model, lines 370-374
UpdateModel ==
    /\ compute_model.timestep < MaxSteps
    /\ LET stepped == step(compute_model, network) IN
        /\ compute_model' = stepped.model
        /\ IF ~cycle.some
           THEN LET checked == check_next(cycle_finder, stepped.model.state_hashes,
                                          stepped.state_hash)
                IN /\ cycle_finder' = checked.self
                   /\ cycle' = checked.ret
           ELSE UNCHANGED <<cycle_finder, cycle>>
    /\ UNCHANGED <<network, folding_vars>>

NextNetwork == GenerateModel \/ UpdateModel

SpecNetwork == InitNetwork /\ [][NextNetwork]_vars

\* the system runs on every frame of the application
SpecNetworkFair == SpecNetwork /\ WF_vars(UpdateModel)

(***************************************************************************)
(* Vocabulary of the properties.                                           *)
(***************************************************************************)
AllSingles(segments) == \A i \in 1..Len(segments) : IsSingle(segments[i])

HasSingle(segments) == \E i \in 1..Len(segments) : IsSingle(segments[i])

HasLoop(segments) == \E i \in 1..Len(segments) : IsLoop(segments[i])

\* parse_sequence has returned Ok
Parsed == pc \notin {"main", "parse_failed"} /\ fault # "parse_sequence"

\* split_at_major_loop has returned
SplitReturned ==
    \/ pc \in {"split", "searched", "done"}
    \/ pc = "panicked" /\ fault \in {"strand_permute_search", "minimize_free_energy"}

MinOf(S) == CHOOSE x \in S : \A y \in S : x <= y

MaxOf(S) == CHOOSE x \in S : \A y \in S : x >= y

\* the arm with the Singles at the positions in P promoted to one-base Loops
Promoted(arm, P) ==
    [i \in 1..Len(arm) |-> IF i \in P /\ IsSingle(arm[i])
                           THEN Loop(<<arm[i].bases[1]>>) ELSE arm[i]]

PromotedEnergies(a, b) ==
    {paired_free_energy(Promoted(a, P), Promoted(b, Q)) :
        P \in SUBSET (1..Len(a)), Q \in SUBSET (1..Len(b))}

\* the elements of a set of numbers in increasing order
RECURSIVE Ascending(_)
Ascending(S) ==
    IF S = {} THEN <<>> ELSE <<MinOf(S)>> \o Ascending(S \ {MinOf(S)})

\* P and Q, taken in increasing order, match position for position and every
\* matched pair of bases is canonical
IsMatching(a, b, P, Q) ==
    /\ Cardinality(P) = Cardinality(Q)
    /\ \A k \in 1..Cardinality(P) :
          can_pair(a[Ascending(P)[k]].bases[1], b[Ascending(Q)[k]].bases[1])

\* the largest number of canonical pairs in an order-preserving matching
MaxMatching(a, b) ==
    MaxOf({Cardinality(P) : P \in {X \in SUBSET (1..Len(a)) :
              \E Q \in SUBSET (1..Len(b)) : IsMatching(a, b, X, Q)}})

\* C1: for two non-empty arms made only of Singles, the energy the search
\* returns is the least paired_free_energy over all promotions of Singles of
\* either arm to one-base Loops, which is |A| + |B| - 2 * M for M the largest
\* order-preserving canonical matching
C1_SearchIsMinimumOverPromotions ==
    (/\ pc = "searched"
     /\ strand_a # <<>> /\ strand_b # <<>>
     /\ AllSingles(strand_a) /\ AllSingles(strand_b))
    => /\ found.free_energy = MinOf(PromotedEnergies(strand_a, strand_b))
       /\ found.free_energy =
            Len(strand_a) + Len(strand_b) - 2 * MaxMatching(strand_a, strand_b)

\* C1 witness: a search on arms of Singles whose best matching has two pairs
\* and needs a promotion on each arm
C1_Witness ==
    /\ pc = "searched"
    /\ Len(strand_a) = 3 /\ Len(strand_b) = 3
    /\ AllSingles(strand_a) /\ AllSingles(strand_b)
    /\ MaxMatching(strand_a, strand_b) = 2
    /\ HBonds(SingleBases(strand_a), SingleBases(strand_b)) = 0
    /\ found.free_energy = 2

\* the candidate whose result the search returned is a first minimum of the
\* candidates' energies, in the order unchanged, bulge on A, bulge on B
FirstMinimumReturned(a, b, returned) ==
    LET results == CandidateResults(Candidates(a, b).pairs) IN
    \E k \in 1..3 :
        /\ returned = results[k]
        /\ \A j \in 1..3 : results[j].free_energy >= results[k].free_energy
        /\ \A j \in 1..(k - 1) : results[j].free_energy > results[k].free_energy

\* C4: the search returns a candidate of least energy, the earliest one on a
\* tie, at the top level and at the recursion level below it: on each pair of
\* non-empty tails its three candidates recurse on.  Arms of Singles shorter
\* by one segment are arms of other explored inputs, so the levels below are
\* top levels there
C4_FirstMinimumAtEveryLevel ==
    (pc = "searched") =>
        /\ FirstMinimumReturned(strand_a, strand_b, found)
        /\ \A i \in 0..1, j \in 0..1 :
              (i + j >= 1 /\ Len(strand_a) > i /\ Len(strand_b) > j) =>
                  FirstMinimumReturned(Suffix(strand_a, i), Suffix(strand_b, j),
                      strand_permute_search(Suffix(strand_a, i), Suffix(strand_b, j)))

\* C4 witness: a search whose three candidates tie, which returned the
\* unchanged arms
C4_Witness ==
    /\ pc = "searched"
    /\ LET results == CandidateResults(Candidates(strand_a, strand_b).pairs) IN
        /\ results[1].free_energy = results[2].free_energy
        /\ results[2].free_energy = results[3].free_energy
        /\ results[1] # results[2] /\ results[1] # results[3]
        /\ found = results[1]
    /\ Len(strand_a) >= 2 /\ Len(strand_b) >= 2

\* C2: with a major loop and at least one Single on each arm (further Loops
\* allowed on the arms), minimize_free_energy returns, and with
\* optimized_energy <= initial_energy
C2_EnergyMonotone ==
    (/\ SplitReturned
     /\ IsLoop(loop_segment)
     /\ HasSingle(strand_a) /\ HasSingle(strand_b))
    => /\ pc # "panicked"
       /\ pc = "done" => opt_free_energy <= initial_free_energy

\* strand_permute_search has been invoked by minimize_free_energy
SearchInvoked ==
    \/ pc \in {"searched", "done"}
    \/ pc = "panicked" /\ fault \in {"strand_permute_search", "minimize_free_energy"}

\* the arm pairs the search is invoked on, at the top level and in recursion
RECURSIVE Levels(_, _)
Levels(a, b) ==
    {<<a, b>>} \cup
    IF Candidates(a, b).panic THEN {}
    ELSE UNION {LET split == split_at_first_pair(pair[1], pair[2]) IN
                IF ~split.panic /\ split.a_tail # <<>> /\ split.b_tail # <<>>
                THEN Levels(split.a_tail, split.b_tail) ELSE {} :
                pair \in {Candidates(a, b).pairs[i] : i \in 1..3}}

\* the candidates that are left when the bulge of an arm with no Single is
\* left out
FeasiblePairs(a, b) ==
    {<<a, b>>}
    \cup (IF HasSingle(a) THEN {<<with_first_single_looped(a).segments, b>>} ELSE {})
    \cup (IF HasSingle(b) THEN {<<a, with_first_single_looped(b).segments>>} ELSE {})

\* the least candidate energy over the feasible candidates, the fronts being
\* aligned by the three-case table and the tails searched in the same way
RECURSIVE FeasibleMinimum(_, _)
FeasibleCandidateEnergy(x, y) ==
    LET hold_y == x # <<>> /\ y # <<>> /\ IsLoop(x[1]) /\ IsSingle(y[1])
        hold_x == x # <<>> /\ y # <<>> /\ IsSingle(x[1]) /\ IsLoop(y[1])
        nx == IF hold_x THEN 0 ELSE Min2(1, Len(x))
        ny == IF hold_y THEN 0 ELSE Min2(1, Len(y))
        head == paired_free_energy(Prefix(x, nx), Prefix(y, ny))
    IN IF Suffix(x, nx) # <<>> /\ Suffix(y, ny) # <<>>
       THEN head + FeasibleMinimum(Suffix(x, nx), Suffix(y, ny))
       ELSE head + paired_free_energy(Suffix(x, nx), Suffix(y, ny))

FeasibleMinimum(a, b) ==
    MinOf({FeasibleCandidateEnergy(pair[1], pair[2]) : pair \in FeasiblePairs(a, b)})

\* C3: wherever the search is invoked with an arm that has no Single, the
\* bulge candidate of that arm is left out, the search returns the minimum
\* over the remaining candidates, and no failure reaches the caller
C3_InfeasibleBulgeLeftOut ==
    (SearchInvoked /\ IsLoop(loop_segment)) =>
        /\ ~(pc = "panicked" /\ fault = "strand_permute_search")
        /\ \A level \in Levels(strand_a, strand_b) :
              (~HasSingle(level[1]) \/ ~HasSingle(level[2])) =>
                 /\ ~strand_permute_search(level[1], level[2]).panic
                 /\ strand_permute_search(level[1], level[2]).free_energy
                        = FeasibleMinimum(level[1], level[2])

\* C5: for a structure with at least one Loop, the middle component of the
\* split is a Loop of greatest base count, the last such Loop on a tie, with
\* arm A the reversed prefix before it and arm B the suffix after it
C5_MajorLoopIsLastLongestLoop ==
    (Parsed /\ pc # "parsed" /\ HasLoop(structure)) =>
        /\ SplitReturned
        /\ \E i \in 1..Len(structure) :
              /\ IsLoop(structure[i])
              /\ loop_segment = structure[i]
              /\ \A j \in 1..Len(structure) :
                    IsLoop(structure[j]) =>
                        Len(structure[j].bases) <= Len(structure[i].bases)
              /\ \A j \in (i + 1)..Len(structure) :
                    IsLoop(structure[j]) =>
                        Len(structure[j].bases) < Len(structure[i].bases)
              /\ strand_a = Reverse(Prefix(structure, i - 1))
              /\ strand_b = Suffix(structure, i)

\* C6: on a structure with no Loop segment minimize_free_energy aborts: the
\* run never gets past the search, so nothing is returned to the caller
C6_NoLoopAborts ==
    (Parsed /\ ~HasLoop(structure)) => pc \in {"parsed", "split", "panicked"}

\* C6 witness: a non-empty structure of Singles only, parsed, split at its last
\* Single and aborted in the search
C6_Witness ==
    /\ pc = "panicked"
    /\ fault = "strand_permute_search"
    /\ Len(structure) >= 2
    /\ ~HasLoop(structure)

\* C7: arms of Singles only, of equal length, canonically paired position for
\* position: minimize_free_energy returns both energies equal to the major
\* loop's base count
C7_PairedArmsCostTheLoop ==
    (/\ SplitReturned
     /\ IsLoop(loop_segment)
     /\ AllSingles(strand_a) /\ AllSingles(strand_b)
     /\ Len(strand_a) = Len(strand_b)
     /\ \A i \in 1..Len(strand_a) :
           can_pair(strand_a[i].bases[1], strand_b[i].bases[1]))
    => /\ pc # "panicked"
       /\ pc = "done" => /\ initial_free_energy = Len(loop_segment.bases)
                         /\ opt_free_energy = Len(loop_segment.bases)

\* the arm with its leading Single promoted to a one-base Loop
PromoteLeading(arm) ==
    IF arm = <<>> THEN arm ELSE <<Loop(<<arm[1].bases[1]>>)>> \o Tail(arm)

\* arms of Singles only with unequal counts, for which promoting the leading
\* Single of one arm lowers paired_free_energy
BulgeHelps ==
    /\ IsLoop(loop_segment)
    /\ AllSingles(strand_a) /\ AllSingles(strand_b)
    /\ Len(strand_a) # Len(strand_b)
    /\ \/ paired_free_energy(PromoteLeading(strand_a), strand_b)
            < paired_free_energy(strand_a, strand_b)
       \/ paired_free_energy(strand_a, PromoteLeading(strand_b))
            < paired_free_energy(strand_a, strand_b)

\* C8: when a leading bulge lowers the energy of arms of Singles of unequal
\* counts, minimize_free_energy returns optimized_energy < initial_energy
C8_BulgeLowersEnergy ==
    (SplitReturned /\ BulgeHelps) =>
        /\ pc # "panicked"
        /\ pc = "done" => opt_free_energy < initial_free_energy

\* C8 witness: a finished run on such arms, the shorter arm holding two bases
C8_Witness ==
    /\ pc = "done"
    /\ BulgeHelps
    /\ Min2(Len(strand_a), Len(strand_b)) = 2
    /\ opt_free_energy < initial_free_energy

IsToken(c) == c \in {"a", "c", "g", "u", "A", "C", "G", "U"}

BaseOf(c) ==
    CASE c \in {"a", "A"} -> "A"
      [] c \in {"c", "C"} -> "C"
      [] c \in {"g", "G"} -> "G"
      [] c \in {"u", "U"} -> "U"

\* the text cut into its runs: a top-level character, the body of a `{...}`
\* loop, or a `{` that no `}` follows (and the cutting stops there)
RECURSIVE Items(_)
Items(text) ==
    IF text = <<>> THEN <<>>
    ELSE IF Head(text) # "{"
         THEN <<[kind |-> "char", chars |-> <<Head(text)>>]>> \o Items(Tail(text))
         ELSE IF \A i \in 2..Len(text) : text[i] # "}"
              THEN <<[kind |-> "open", chars |-> <<>>]>>
              ELSE LET end == CHOOSE i \in 2..Len(text) :
                                /\ text[i] = "}"
                                /\ \A j \in 2..(i - 1) : text[j] # "}"
                   IN <<[kind |-> "body", chars |-> SubSeq(text, 2, end - 1)]>>
                        \o Items(SubSeq(text, end + 1, Len(text)))

\* the number of leading nucleotide tokens of a run
ValidPrefixLen(chars) ==
    CHOOSE k \in 0..Len(chars) :
        /\ \A j \in 1..k : IsToken(chars[j])
        /\ k = Len(chars) \/ ~IsToken(chars[k + 1])

\* the bases of the leading nucleotide tokens of a run
DecodedPrefix(chars) == [j \in 1..ValidPrefixLen(chars) |-> BaseOf(chars[j])]

\* the text holds a character that is neither a nucleotide token nor a
\* delimiter of a matched `{...}` pair, at top level or in a loop body
HasStrayCharacter(text) ==
    \E i \in 1..Len(Items(text)) :
        LET item == Items(text)[i] IN
        \/ item.kind = "open"
        \/ item.kind = "char" /\ ~IsToken(item.chars[1])
        \/ item.kind = "body" /\ ValidPrefixLen(item.chars) < Len(item.chars)

\* C9: parse_sequence returns an error, and no Structure, for every text that
\* holds a stray character, at top level or inside a loop body
C9_StrayCharacterIsAnError ==
    (pc # "main" /\ HasStrayCharacter(raw_sequence)) => pc = "parse_failed"

\* every brace of the text delimits a matched `{...}` pair
BracesMatched(text) ==
    \A i \in 1..Len(Items(text)) :
        LET item == Items(text)[i] IN
        /\ item.kind # "open"
        /\ item.kind = "char" => item.chars[1] # "}"

\* a run of the text, the top-level sequence or a loop body, holds an invalid
\* nucleotide token
InvalidTokenInARun(text) ==
    \E i \in 1..Len(Items(text)) :
        LET item == Items(text)[i] IN
        \/ item.kind = "char" /\ ~IsToken(item.chars[1])
        \/ item.kind = "body" /\ ValidPrefixLen(item.chars) < Len(item.chars)

\* C10 as stated: an invalid token inside a run, loop body or top level, does
\* not fail the parse
C10_InvalidTokenNeverFails ==
    (pc # "main" /\ BracesMatched(raw_sequence) /\ InvalidTokenInARun(raw_sequence))
        => Parsed

\* the segments of a text whose top-level characters are all tokens: a Single
\* per character, a Loop per body holding the bases before its first invalid
\* token
TruncatedSegments(text) ==
    [i \in 1..Len(Items(text)) |->
        IF Items(text)[i].kind = "body"
        THEN Loop(DecodedPrefix(Items(text)[i].chars))
        ELSE Single(BaseOf(Items(text)[i].chars[1]))]

\* C10 as amended: an invalid token inside a loop body ends the decoding of
\* that body, is dropped with the rest of the body, and the parse succeeds;
\* an invalid token at top level is not dropped, the parse does not succeed
C10_OnlyLoopBodiesAreTruncated ==
    (pc # "main") =>
        /\ (\A i \in 1..Len(Items(raw_sequence)) :
                LET item == Items(raw_sequence)[i] IN
                /\ item.kind # "open"
                /\ item.kind = "char" => IsToken(item.chars[1]))
           => (Parsed /\ structure = TruncatedSegments(raw_sequence))
        /\ (\E i \in 1..Len(Items(raw_sequence)) :
                LET item == Items(raw_sequence)[i] IN
                item.kind = "char" /\ ~IsToken(item.chars[1]))
           => ~Parsed

\* C10 witness: a parsed text with a loop body cut after its first base, the
\* dropped rest holding a further valid token
C10_Witness ==
    /\ pc = "parsed"
    /\ \E i \in 1..Len(Items(raw_sequence)) :
          LET item == Items(raw_sequence)[i] IN
          /\ item.kind = "body"
          /\ ValidPrefixLen(item.chars) = 1
          /\ Len(item.chars) = 3
          /\ IsToken(item.chars[3])
          /\ structure[i] = Loop(<<BaseOf(item.chars[1])>>)

\* C11: every Loop of every structure that parse_sequence returns holds at
\* least one nucleotide
C11_ParsedLoopsHoldABase ==
    Parsed => \A i \in 1..Len(structure) :
                 IsLoop(structure[i]) => Len(structure[i].bases) >= 1

NoAdjacentLoops(segments) ==
    \A i \in 1..(Len(segments) - 1) : ~(IsLoop(segments[i]) /\ IsLoop(segments[i + 1]))

\* C12: a structure with no two adjacent Loops, written as text segment by
\* segment (the Debug texts of its segments one after the other, without
\* the frame that the Debug of a structure puts around them) and parsed
\* again, is returned unchanged; the structures are all those the parser
\* builds from the explored texts
C12_FormatParseRoundTrip ==
    (Parsed /\ NoAdjacentLoops(structure)) =>
        parse_sequence(FormatSegments(structure)) = ParseOk(structure)

\* a parsed structure with a Single next to a non-empty Loop, whose text
\* differs from the argument it was parsed from, survives the round trip
C12_Witness ==
    /\ Parsed /\ NoAdjacentLoops(structure)
    /\ HasSingle(structure)
    /\ \E i \in 1..Len(structure) : IsLoop(structure[i]) /\ Len(structure[i].bases) >= 2
    /\ FormatSegments(structure) # raw_sequence
    /\ parse_sequence(FormatSegments(structure)) = ParseOk(structure)

\* the nucleotides of a structure read left to right, Single bases and Loop
\* contents alike
Nucleotides(segments) ==
    Concat([i \in 1..Len(segments) |-> segments[i].bases])

\* C15: when minimize_free_energy returns, the optimized structure holds the
\* nucleotides of the input structure in the same left-to-right order
C15_NucleotideOrderKept ==
    pc = "done" => Nucleotides(opt_structure) = Nucleotides(structure)

\* C16: the energy the search returns is paired_free_energy of the arms it
\* returns, so the reported optimized energy is that value plus the base
\* count of the major loop
C16_EnergyIsPairedEnergyOfResult ==
    /\ pc \in {"searched", "done"} =>
          found.free_energy = paired_free_energy(found.a, found.b)
    /\ pc = "done" =>
          opt_free_energy = paired_free_energy(found.a, found.b) + Len(loop_segment.bases)

\* a returned result with a promoted base on it, below the initial energy,
\* from arms long enough for the search to recurse
C16_Witness ==
    /\ pc = "done"
    /\ Len(strand_a) >= 2 /\ Len(strand_b) >= 2
    /\ HasLoop(found.a) \/ HasLoop(found.b)
    /\ opt_free_energy < initial_free_energy
    /\ found.free_energy = paired_free_energy(found.a, found.b)

\* the task whose call spawned branch q
Caller(q) == Prefix(q, Len(q) - 1)

\* the tasks that have called strand_permute_search from inside a branch
RecursiveCalls ==
    {q \in DOMAIN tasks : q # <<>> /\ tasks[q].status = "waiting"}

\* every finished branch holds what the closure evaluated on its own arms
\* returns, and the search hands minimize_free_energy what the candidates
\* evaluated in array order and reduced from the left give
SequentialResult ==
    /\ \A q \in DOMAIN tasks :
          tasks[q].status = "done" =>
              tasks[q].result = EvalCandidate(tasks[q].a, tasks[q].b)
    /\ pc \in {"searched", "done"} =>
          found = strand_permute_search(strand_a, strand_b)
    /\ (pc = "panicked" /\ fault = "strand_permute_search") =>
          strand_permute_search(strand_a, strand_b).panic

\* the call made by q ends with this step
Ends(q) ==
    /\ tasks[q].status = "waiting"
    /\ q \notin DOMAIN tasks' \/ tasks'[q].status = "done"

\* the call made by q ends with this step in a panic
EndsInPanic(q) ==
    /\ Ends(q)
    /\ IF q = <<>> THEN pc' = "panicked" ELSE tasks'[q].result.panic

\* a call returns a result only from a state in which its three branches
\* have finished, none of them in a panic; a call that ends in a panic has
\* a panicked branch and no branch that is still in a call of its own
ReturnsAfterSiblings ==
    \A q \in DOMAIN tasks :
        /\ (Ends(q) /\ ~EndsInPanic(q)) =>
              \A p \in Children(q) :
                  tasks[p].status = "done" /\ ~tasks[p].result.panic
        /\ EndsInPanic(q) =>
              /\ \E p \in Children(q) : Panicked(p)
              /\ \A p \in Children(q) : tasks[p].status # "waiting"

\* the arms of a branch are never written after the array entry was made,
\* a finished branch is never written again, and a step writes the record
\* of one task only
OwnArmsOnly ==
    LET kept == DOMAIN tasks \cap DOMAIN tasks' IN
    /\ \A q \in kept :
          /\ tasks'[q].a = tasks[q].a /\ tasks'[q].b = tasks[q].b
          /\ tasks[q].status = "done" => tasks'[q] = tasks[q]
    /\ Cardinality({q \in kept : tasks'[q] # tasks[q]}) <= 1

\* every reduction made so far at a level was made with all three branches
\* of the level finished
ReductionAfterAllSiblings ==
    \A q \in DOMAIN tasks :
        (tasks[q].status = "waiting" /\ Len(tasks[q].pieces) < 3) =>
            \A p \in Children(q) : tasks[p].status = "done"

\* C13 as stated: the search returns what the sequential evaluation of
\* candidates 1, 2, 3 returns, and the reduction at a level runs only after
\* all sibling branches of that level have finished
C13_ReductionBehindBarrier ==
    SequentialResult /\ ReductionAfterAllSiblings

\* a piece reduced from several branches spans finished branches only, none
\* of them panicked, and holds the first minimum of their results
PartialReductionsOfFinished ==
    \A q \in DOMAIN tasks :
        tasks[q].status = "waiting" =>
            \A k \in 1..Len(tasks[q].pieces) :
                LET piece == tasks[q].pieces[k]
                    results == [i \in 1..(piece.hi - piece.lo + 1) |->
                                   tasks[Append(q, piece.lo + i - 1)].result]
                IN piece.lo < piece.hi =>
                      /\ PieceComplete(q, piece)
                      /\ \A i \in 1..Len(results) : ~results[i].panic
                      /\ piece.acc = results[MinByKey(results)]

\* as long as a call waits, the arms of its three branches are the entries
\* of the array made from the tails the call was handed: what a branch
\* works on is never changed by a step of another branch
ArmsFromCaller ==
    \A q \in DOMAIN tasks :
        tasks[q].status = "waiting" =>
            LET candidates == Candidates(tasks[q].a_tail, tasks[q].b_tail) IN
            /\ ~candidates.panic
            /\ \A i \in 1..3 :
                  /\ Append(q, i) \in DOMAIN tasks
                  /\ tasks[Append(q, i)].a = candidates.pairs[i][1]
                  /\ tasks[Append(q, i)].b = candidates.pairs[i][2]

\* C13, amended: whatever the order in which the branches run, finish and
\* are reduced, the search returns what the sequential evaluation of
\* candidates 1, 2, 3 returns, and panics where that panics; two finished
\* neighbouring branches may be reduced while the third still runs, the
\* earlier one kept on a tie, but a level returns a result only after all
\* its branches have finished; every branch works on the arms of its own
\* array entry, which no step of another branch writes
C13_AnyScheduleSameResult ==
    /\ [](SequentialResult /\ PartialReductionsOfFinished /\ ArmsFromCaller)
    /\ [][ReturnsAfterSiblings /\ OwnArmsOnly]_vars

\* at the top level branches 2 and 3 have finished with equal energies and
\* have been reduced to the earlier one, which beats branch 1, before
\* branch 1 has finished
C13_Witness ==
    /\ pc = "searching"
    /\ tasks[<<1>>].status # "done"
    /\ Len(tasks[<<>>].pieces) = 2
    /\ tasks[<<>>].pieces[2].lo = 2 /\ tasks[<<>>].pieces[2].hi = 3
    /\ tasks[<<2>>].result.free_energy = tasks[<<3>>].result.free_energy
    /\ tasks[<<>>].pieces[2].acc = tasks[<<2>>].result
    /\ tasks[<<2>>].result # tasks[<<3>>].result
    /\ tasks[<<2>>].result.free_energy
          < EvalCandidate(tasks[<<1>>].a, tasks[<<1>>].b).free_energy
    /\ strand_permute_search(strand_a, strand_b) = tasks[<<2>>].result

\* C14 as stated: every recursive call receives two arms each strictly
\* shorter than the arms of its caller, and the recursion is never deeper
\* than the shorter initial arm has segments
C14_BothArmsShrink ==
    \A q \in RecursiveCalls :
        /\ Len(tasks[q].a_tail) < Len(tasks[Caller(q)].a_tail)
        /\ Len(tasks[q].b_tail) < Len(tasks[Caller(q)].b_tail)
        /\ Len(q) <= Min2(Len(strand_a), Len(strand_b))

\* every recursive call receives arms neither of which is longer than its
\* caller's and which together have fewer segments, and with n segments on
\* the two initial arms the recursion is at most n - 2 calls deep
TotalShrinks ==
    \A q \in RecursiveCalls :
        /\ Len(tasks[q].a_tail) <= Len(tasks[Caller(q)].a_tail)
        /\ Len(tasks[q].b_tail) <= Len(tasks[Caller(q)].b_tail)
        /\ Len(tasks[q].a_tail) + Len(tasks[q].b_tail)
              < Len(tasks[Caller(q)].a_tail) + Len(tasks[Caller(q)].b_tail)
        /\ Len(q) <= Len(strand_a) + Len(strand_b) - 2

\* the steps a branch on arms of n segments in all can still take: its own
\* closure and, when it recurses, the reduction and the three branches of
\* the call, whose arms have fewer segments
RECURSIVE Budget(_)
Budget(n) == IF n <= 2 THEN 1 ELSE 4 + 3 * Budget(n - 1)

\* a bound on the steps the task tree below q can still take: the budget of
\* a ready branch; for a waiting task the reductions it has not made yet,
\* its return, and what its branches can still take
RECURSIVE TreeSteps(_, _)
TreeSteps(tree, q) ==
    CASE tree[q].status = "ready" -> Budget(Len(tree[q].a) + Len(tree[q].b))
      [] tree[q].status = "waiting" ->
            Len(tree[q].pieces) + TreeSteps(tree, Append(q, 1))
                + TreeSteps(tree, Append(q, 2)) + TreeSteps(tree, Append(q, 3))
      [] OTHER -> 0

StepsLeft == IF <<>> \in DOMAIN tasks THEN TreeSteps(tasks, <<>>) ELSE 0

\* the guards of Evaluate, Combine and Return: some branch can run, or some
\* reduction or return can be made
CanStep ==
    \E q \in DOMAIN tasks :
        \/ tasks[q].status = "ready"
        \/ /\ tasks[q].status = "waiting"
           /\ \/ Reduced(q)
              \/ Unwinds(q)
              \/ \E k \in 1..(Len(tasks[q].pieces) - 1) :
                    /\ PieceComplete(q, tasks[q].pieces[k])
                    /\ PieceComplete(q, tasks[q].pieces[k + 1])
                    /\ ~PieceResult(q, tasks[q].pieces[k]).panic
                    /\ ~PieceResult(q, tasks[q].pieces[k + 1]).panic

\* the search aborts only where some level is handed an arm with no Single
AbortsOnlyWithoutSingle ==
    (pc = "panicked" /\ fault = "strand_permute_search") =>
        \E level \in Levels(strand_a, strand_b) :
            ~HasSingle(level[1]) \/ ~HasSingle(level[2])

\* C14, amended: the arms of a recursive call together have fewer segments
\* than its caller's (one of them may be the caller's arm unchanged), the
\* depth is bounded by the segments of both arms, and the search ends, with
\* a result unless an arm has no Single: while it runs a step is always
\* possible and every step lowers the bound on the steps that are left
C14_TotalShrinksAndSearchEnds ==
    /\ [](TotalShrinks /\ AbortsOnlyWithoutSingle /\ (pc = "searching" => CanStep))
    /\ [][pc = "searching" => StepsLeft' < StepsLeft]_vars

\* a call two levels below the top, on arms of one and three segments, that
\* was handed arm A just as its caller held it
C14_Witness ==
    /\ pc = "searching"
    /\ Len(strand_a) = 1 /\ Len(strand_b) = 3
    /\ \E q \in RecursiveCalls :
          /\ Len(q) = 2
          /\ tasks[q].a_tail = tasks[Caller(q)].a_tail
          /\ Len(tasks[q].b_tail) < Len(tasks[Caller(q)].b_tail)

\* the sequence x0, x1, ... the model runs through, from its starting state
RECURSIVE Orbit(_, _)
Orbit(x, i) == IF i = 0 THEN x ELSE network[Orbit(x, i - 1)]

StartState ==
    IF compute_model.state_hashes = <<>> THEN compute_model.graph
    ELSE compute_model.state_hashes[1]

X(i) == Orbit(StartState, i)

\* the minimal period: the least distance at which the sequence repeats
MinimalPeriod ==
    MinOf({l \in 1..NumStates : \E i \in 0..NumStates : X(i) = X(i + l)})

\* the least index from which the sequence repeats at that distance
CycleStart ==
    MinOf({i \in 0..NumStates : X(i) = X(i + MinimalPeriod)})

\* the collection handed to check_next holds x0..xn, n being the timestep
CollectionHoldsTheSequence ==
    compute_model.timestep >= 1 =>
        compute_model.state_hashes
            = [i \in 1..(compute_model.timestep + 1) |-> X(i - 1)]

\* what check_next has returned so far: nothing, or the range of the cycle
ReportedCycleIsTheCycle ==
    cycle.some => cycle.value = Range(CycleStart, CycleStart + MinimalPeriod)

\* as long as nothing has been reported, the steps taken stay below three
\* times the greater of the cycle's start and period, and update_model can
\* take another step
ReportedInBoundedSteps ==
    ~cycle.some =>
        /\ compute_model.timestep
              < 3 * MaxOf({CycleStart, MinimalPeriod})
        /\ compute_model.timestep < MaxSteps

\* a step of update_model on the network at hand, as against a step of
\* generate_model, which starts a new sequence
SameSequence == compute_model'.timestep = compute_model.timestep + 1

\* C17: on the sequence of every network, the first generated or one
\* generated later, check_next, called once per step on x0..xn, returns
\* None until it returns the range CycleStart..CycleStart + MinimalPeriod,
\* which is kept as long as the sequence goes on; and unless networks are
\* generated again and again, it does return it and the range stays
C17_BrentFindsTheCycle ==
    /\ [](CollectionHoldsTheSequence /\ ReportedCycleIsTheCycle /\ ReportedInBoundedSteps)
    /\ [][(cycle.some /\ SameSequence) => cycle' = cycle]_vars
    /\ []<><<GenerateModel>>_vars \/ <>[]cycle.some

\* a cycle of period three from the starting state on, reported only once
\* the tortoise has been moved up twice
C17_Witness ==
    /\ cycle.some
    /\ cycle.value = Range(0, 3)
    /\ cycle_finder.power = 4
    /\ cycle_finder.lambda = 3
    /\ compute_model.timestep = 7

====
